---- MODULE Spec2Model ----
(***************************************************************************)
(* Streaming response relay of the Llm-Chat backend.                       *)
(*                                                                         *)
(* Two relay handlers are modelled:                                        *)
(*   - ChatSocketHandler (socket-handler/chat.ts), wired by the Express    *)
(*     application: authenticated connections, chat resolution, message    *)
(*     persistence through ChatModel (Prisma), unbuffered chunk relay;     *)
(*   - message (socket-handler/chat.js), wired by socketController: the    *)
(*     buffering handler with a 100 ms flush timer.                        *)
(* Text is modelled as a sequence of characters, so that concatenation,    *)
(* order and duplication are observable.                                   *)
(***************************************************************************)
EXTENDS Integers, Sequences, FiniteSets, TLC

(* ------------------------------ bounds --------------------------------- *)
MaxPrompts == 2
MaxFrags == 2
MaxChats == 2
MaxDropped == 1
MaxRest == 2
MaxStored == 22
MaxShaped == 3
MaxMgmt == 2

(* --------------------------- value domains ----------------------------- *)
Users == {"u1", "u2"}
NoUser == "nobody"
Conns == {"c1", "c2"}
Tokens == {"missing", "invalid", "tok_u1", "tok_u2"}
\* the i-th fragment of a stream is empty or the i-th letter, so that every
\* non-empty fragment of a stream is distinct and its position is visible
Letters == <<"a", "b", "c", "d">>
FragTexts(i) == {<<>>, <<Letters[i]>>}
Contents == {<<>>, <<"h">>}
\* the sockets of the Express application, and the handshake tokens tried on
\* the socketController server (which never looks at them)
TsConns == {"c1"}
JsTokens == {"missing", "tok_u1"}
\* the handshake tokens tried on the Express application; the two users are
\* interchangeable, so the socket's user is u1
TsTokens == {"missing", "invalid", "tok_u1"}
\* the text fragments the Ollama LLM stream yields at position i
TsFragTexts(i) == {<<Letters[i]>>}
\* the userId field of a chat-with-llm payload: the socket's user is u1, and
\* a payload naming u1 cannot be told from the bound identity, so the
\* payloads name the other user
PayloadUserIds == {"u2"}
\* the users who create chats through REST: the socket's user and another
RestUsers == {"u1", "u2"}
\* the two deployments: the Express application (ChatSocketHandler) and the
\* server of bin/www (socketController)
Servers == {"express", "www"}
RestContents == {<<>>, <<"r">>}
Roles == {"USER", "ASSISTANT", "SYSTEM"}
ClientEvents == {"chat-with-llm", "create-chat", "get-user-chats", "delete-chat"}
NoChat == 0
\* an absent or empty context string, and the context strings tried: k in the
\* chat-with-llm payload, x in the create-chat payload
NoContext == <<>>
PayloadContexts == {NoContext, <<"k">>}
ChatContexts == {NoContext, <<"x">>}
ChatIds == 1..MaxChats
ContextLimit == 20
InMemoryContextLimit == 10

VARIABLES
  server,    \* which of the two servers is running
  conn,      \* per socket: liveness, handler kind, credential, bound user, log
  sess,      \* per prompt: the closure state of one chat-with-llm invocation
  nPrompts,  \* number of chat-with-llm invocations so far
  chats,     \* Chat rows, indexed by id
  messages,  \* Message rows in creation order
  clock,     \* logical time used for updatedAt
  activeConnections, \* MonitoringService gauge
  restLog,   \* HTTP status codes answered by the REST add-message endpoint
  dropped,   \* events the client sent on a socket the server had closed
  ctxRead,   \* the result of the latest direct call of getChatContext
  adapter,   \* one inference stream of shaped fragments and the text built from it
  client     \* the browser: streaming accumulator, shown messages, events taken

vars == <<server, conn, sess, nPrompts, chats, messages, clock, activeConnections, restLog, dropped, ctxRead, adapter, client>>

\* one entry of a prompt's timeline: an emitted event, a storage call or the
\* inference call, with its text payload and the row ids it refers to
Ev(e, t, r) == [ev |-> e, text |-> t, ref |-> r]

Min(a, b) == IF a < b THEN a ELSE b

(* ------------------------- Session Authenticator ----------------------- *)
\* a verifier that decodes the payload without checking the signature
verifyTokenDecodeOnly(t) ==
  IF t \in {"tok_u1", "invalid"} THEN "u1" ELSE IF t = "tok_u2" THEN "u2" ELSE NoUser

\* jwt.verify: the payload of a token signed with the secret, null otherwise
verifyToken(t) ==
  IF t = "tok_u1" THEN "u1" ELSE IF t = "tok_u2" THEN "u2" ELSE NoUser

(* ----------------------------- ChatModel ------------------------------- *)
\* a lookup by id alone, without the owner in the where clause
getChatByIdAnyOwner(cs, chatId, userId) ==
  IF chatId \in 1..Len(cs) THEN chatId ELSE NoChat

\* a lookup that never finds the row
getChatByIdNever(cs, chatId, userId) == NoChat

\* prisma.chat.findFirst({ where: { id, userId } })
getChatById(cs, chatId, userId) ==
  IF chatId \in 1..Len(cs) /\ cs[chatId].userId = userId /\ ~cs[chatId].deleted
  THEN chatId ELSE NoChat

\* a create that returns a chat object without persisting the row
createChatNoRow(cs, userId, title, context, now) == cs

\* prisma.chat.create: a fresh row with a server-assigned id
createChat(cs, userId, title, context, now) ==
  Append(cs, [userId |-> userId, title |-> title, context |-> context,
              createdAt |-> now, updatedAt |-> now, deleted |-> FALSE])

\* prisma.chat.deleteMany({ where: { id, userId } }); a deleted row keeps its
\* place so that ids are never reused
deleteChat(cs, chatId, userId) ==
  [i \in 1..Len(cs) |->
     IF i = chatId /\ cs[i].userId = userId THEN [cs[i] EXCEPT !.deleted = TRUE] ELSE cs[i]]

\* prisma.chat.findMany({ where: { userId } }): the ids of the user's chats
getUserChats(cs, userId) ==
  {i \in 1..Len(cs) : cs[i].userId = userId /\ ~cs[i].deleted}

\* prisma.message.create succeeds when the referenced chat row exists
addMessageOk(cs, chatId) == chatId \in 1..Len(cs) /\ ~cs[chatId].deleted

\* an addMessage whose row sorts before the rows already stored
addMessageRowFirst(ms, chatId, userId, content, role, p) ==
  << [chatId |-> chatId, userId |-> userId, content |-> content,
      role |-> role, prompt |-> p] >> \o ms

\* an addMessage that writes the row twice
addMessageRowTwice(ms, chatId, userId, content, role, p) ==
  ms \o << [chatId |-> chatId, userId |-> userId, content |-> content,
            role |-> role, prompt |-> p],
           [chatId |-> chatId, userId |-> userId, content |-> content,
            role |-> role, prompt |-> p] >>

\* the Message row written by addMessage
addMessageRow(ms, chatId, userId, content, role, p) ==
  Append(ms, [chatId |-> chatId, userId |-> userId, content |-> content,
              role |-> role, prompt |-> p])

\* prisma.chat.update({ where: { id }, data: { updatedAt } })
addMessageTouch(cs, chatId, now) ==
  [cs EXCEPT ![chatId].updatedAt = now]

\* indices of the messages of one chat, creation-time ascending
RECURSIVE MessagesOf(_, _, _)
MessagesOf(ms, chatId, i) ==
  IF i > Len(ms) THEN <<>>
  ELSE (IF ms[i].chatId = chatId THEN <<i>> ELSE <<>>) \o MessagesOf(ms, chatId, i + 1)

\* include: { messages: { orderBy: { createdAt: 'asc' }, take: 20 } }
getChatContext(ms, chatId) ==
  LET all == MessagesOf(ms, chatId, 1)
  IN SubSeq(all, 1, Min(ContextLimit, Len(all)))

\* the in-memory ChatModel: chat.messages.slice(-10)
getChatContextInMemory(ms, chatId) ==
  LET all == MessagesOf(ms, chatId, 1)
  IN SubSeq(all, Len(all) - Min(InMemoryContextLimit, Len(all)) + 1, Len(all))

(* ------------------------------- state --------------------------------- *)
\* no stream of shaped fragments is being consumed
NoStream == [runtime |-> "none", stream |-> <<>>, pos |-> 0, text |-> <<>>]

\* no direct call of getChatContext yet; `total` is history: the number of
\* messages the chat held at the call
NoRead == [impl |-> "none", chatId |-> NoChat, rows |-> <<>>, total |-> 0]

\* the browser before its first prompt: its active chat has an id made on the
\* client, which no chat of the store has
LocalChatId == MaxChats + 1
NoClient == [acc |-> <<>>, msgs |-> <<>>, chatId |-> LocalChatId, sent |-> 0, pos |-> 0,
             out |-> <<>>]

NewConn == [state |-> "new", kind |-> "none", cred |-> "missing", user |-> NoUser,
            registered |-> FALSE, log |-> <<>>, storeCalls |-> 0, inferCalls |-> 0,
            listed |-> {}]

NoSess == [pc |-> "unused", kind |-> "none", conn |-> "c1", content |-> <<>>,
           reqChat |-> NoChat, chatId |-> NoChat, F |-> <<>>, buffer |-> <<>>,
           timer |-> FALSE, armed |-> 0, responseContent |-> <<>>, ctx |-> <<>>, hist |-> <<>>,
           cut |-> FALSE, idle |-> TRUE, burst |-> FALSE, payloadUser |-> NoUser,
           context |-> NoContext, fullPrompt |-> <<>>]

Init ==
  /\ server \in Servers
  /\ conn = [c \in Conns |-> NewConn]
  /\ sess = [p \in 1..MaxPrompts |-> NoSess]
  /\ nPrompts = 0
  /\ chats = <<>>
  /\ messages = <<>>
  /\ clock = 0
  /\ activeConnections = 0
  /\ restLog = <<>>
  /\ dropped = <<>>
  /\ ctxRead = NoRead
  /\ client = NoClient
  /\ adapter = NoStream

(* --------------------------- connection open --------------------------- *)
\* sockets are numbered in the order in which they connect
InOrder(c) == c = "c2" => conn["c1"].state # "new"

\* ChatSocketHandler.handleConnection
handleConnection(c, token) ==
  /\ server = "express"
  /\ conn[c].state = "new"
  /\ InOrder(c)
  /\ LET decoded == verifyToken(token) IN
     IF token = "missing" \/ decoded = NoUser
     THEN /\ conn' = [conn EXCEPT ![c] = [@ EXCEPT !.state = "closed", !.kind = "ts",
                         !.cred = token, !.log = <<"auth_error", "disconnect">>]]
          /\ UNCHANGED activeConnections
     ELSE /\ conn' = [conn EXCEPT ![c] = [@ EXCEPT !.state = "open", !.kind = "ts",
                         !.cred = token, !.user = decoded, !.registered = TRUE]]
          /\ activeConnections' = activeConnections + 1
  /\ UNCHANGED <<server, sess, nPrompts, chats, messages, clock, restLog, dropped, ctxRead, adapter, client>>

\* socketController: io.on('connection') registers message(socket) for every socket
socketController(c, token) ==
  /\ server = "www"
  /\ conn[c].state = "new"
  /\ InOrder(c)
  /\ conn' = [conn EXCEPT ![c] = [@ EXCEPT !.state = "open", !.kind = "js",
                 !.cred = token, !.registered = TRUE]]
  /\ UNCHANGED <<server, sess, nPrompts, chats, messages, clock, activeConnections, restLog, dropped, ctxRead, adapter, client>>

\* history: the ChatSocketHandler sessions that were Streaming when their
\* socket closed
noteCut(c) ==
  [p \in 1..MaxPrompts |->
     IF sess[p].conn = c /\ sess[p].pc = "streaming"
     THEN [sess[p] EXCEPT !.cut = TRUE] ELSE sess[p]]

\* ChatSocketHandler.handleDisconnection, run on the socket's 'disconnect' event
handleDisconnection(c) ==
  /\ conn[c].state = "open" /\ conn[c].kind = "ts"
  /\ conn' = [conn EXCEPT ![c].state = "closed", ![c].log = Append(@, "disconnect")]
  /\ activeConnections' = activeConnections - 1
  /\ sess' = noteCut(c)
  /\ UNCHANGED <<server, nPrompts, chats, messages, clock, restLog, dropped, ctxRead, adapter, client>>

\* a socket served by socketController closes: its 'disconnection' listener
\* names no socket.io event, so no server code runs
clientClose(c) ==
  /\ conn[c].state = "open" /\ conn[c].kind = "js"
  /\ conn' = [conn EXCEPT ![c].state = "closed", ![c].log = Append(@, "disconnect")]
  /\ UNCHANGED <<server, sess, nPrompts, chats, messages, clock, activeConnections, restLog, dropped, ctxRead, adapter, client>>

\* an event sent by the client on a socket that handleConnection rejected and
\* closed: no listener was registered and the transport is gone
ClientSendOnClosed(c, e) ==
  /\ conn[c].state = "closed" /\ conn[c].kind = "ts" /\ ~conn[c].registered
  /\ Len(dropped) < MaxDropped
  /\ dropped' = Append(dropped, <<c, e>>)
  /\ UNCHANGED <<server, conn, sess, nPrompts, chats, messages, clock, activeConnections, restLog, ctxRead, adapter, client>>

\* history: no earlier prompt of socket c is still in progress
Idle(c) == \A q \in 1..MaxPrompts : (sess[q].pc # "unused" /\ sess[q].conn = c) => sess[q].pc = "done"

(* ------------- ChatSocketHandler.handleChatWithLLM (chat.ts) ------------ *)
\* a handler that takes the user of a storage call from the payload
userIdFromPayload(socketUser, payloadUserId) == payloadUserId

\* the userId argument of every storage call: socket.user.id
userIdOf(socketUser, payloadUserId) == socketUser

Resolving == {p \in 1..MaxPrompts : sess[p].pc = "resolving"}

\* a catch block that ends the typing indicator and reports nothing
catchBlockTypingEndOnly(h, cause) ==
  Append(h, Ev("llm-typing-end", <<>>, <<>>))

\* a catch block that reports the error and leaves the typing indicator on
catchBlockErrorOnly(h, cause) ==
  Append(h, Ev("llm-response-error", <<cause>>, <<>>))

\* the catch block: typing end, then the error event
catchBlock(h, cause) ==
  h \o <<Ev("llm-typing-end", <<>>, <<>>), Ev("llm-response-error", <<cause>>, <<>>)>>

\* entry of the handler up to its first await
contentMissingNever(content) == FALSE

\* !data.content: the content is missing or the empty string
contentMissing(content) == content = <<>>

handleChatWithLLM(c, content, reqChat, context) ==
  /\ conn[c].state = "open" /\ conn[c].kind = "ts" /\ conn[c].registered
  /\ nPrompts < MaxPrompts
  /\ Len(chats) + Cardinality(Resolving) < MaxChats
  /\ nPrompts' = nPrompts + 1
  /\ \E uid \in PayloadUserIds :
     LET p == nPrompts + 1
         s0 == [NoSess EXCEPT !.kind = "ts", !.conn = c, !.content = content,
                              !.reqChat = reqChat, !.chatId = reqChat,
                              !.idle = Idle(c), !.payloadUser = uid,
                              !.context = context]
     IN sess' = [sess EXCEPT ![p] =
          IF conn[c].user = NoUser
          THEN [s0 EXCEPT !.pc = "done", !.hist = <<Ev("error", <<"Authentication required">>, <<>>)>>]
          ELSE IF contentMissing(content)
          THEN [s0 EXCEPT !.pc = "done", !.hist = <<Ev("error", <<"Content is required">>, <<>>)>>]
          ELSE [s0 EXCEPT !.pc = "resolving"]]
  /\ UNCHANGED <<server, conn, chats, messages, clock, activeConnections, restLog, dropped, ctxRead, adapter, client>>

\* lines 126-149: use the chat named by the prompt or create a new one
resolveChat(p, ok) ==
  /\ sess[p].kind = "ts" /\ sess[p].pc = "resolving"
  /\ LET s == sess[p]
         c == s.conn
         u == userIdOf(conn[c].user, s.payloadUser)
         existing == IF s.chatId = NoChat THEN NoChat ELSE getChatById(chats, s.chatId, u)
         lookups == IF s.chatId = NoChat THEN 0 ELSE 1
     IN IF existing # NoChat
        THEN /\ sess' = [sess EXCEPT ![p].pc = "addUser",
                           ![p].hist = Append(@, Ev("getChatById", <<>>, <<existing>>))]
             /\ conn' = [conn EXCEPT ![c].storeCalls = @ + 1]
             /\ UNCHANGED <<server, chats, clock>>
        ELSE IF ok
        THEN /\ chats' = createChat(chats, u, "New Chat", NoContext, clock + 1)
             /\ clock' = clock + 1
             /\ sess' = [sess EXCEPT ![p].pc = "addUser", ![p].chatId = Len(chats) + 1,
                           ![p].hist = @ \o <<Ev("createChat", <<>>, <<Len(chats) + 1>>),
                                              Ev("chat-created", <<>>, <<Len(chats) + 1>>)>>]
             /\ conn' = [conn EXCEPT ![c].storeCalls = @ + lookups + 1]
        ELSE /\ sess' = [sess EXCEPT ![p].pc = "done",
                           ![p].hist = catchBlock(@, "createChat failed")]
             /\ conn' = [conn EXCEPT ![c].storeCalls = @ + lookups + 1]
             /\ UNCHANGED <<server, chats, clock>>
  /\ UNCHANGED <<server, nPrompts, messages, activeConnections, restLog, dropped, ctxRead, adapter, client>>

\* ChatModel.addMessage returns, or throws from prisma.message.create, or
\* throws from prisma.chat.update after the row was created
StoreOutcomes == {"ok", "fail_create", "fail_update"}

\* ChatModel.addMessage as called by the relay for prompt p: the row is created
\* when the chat row exists, then the chat's updatedAt is bumped
relayAddMessage(p, content, role, outcome) ==
  LET s == sess[p]
      u == userIdOf(conn[s.conn].user, s.payloadUser)
      created == outcome # "fail_create" /\ addMessageOk(chats, s.chatId)
      touched == created /\ outcome = "ok"
  IN /\ messages' = IF created THEN addMessageRow(messages, s.chatId, u, content, role, p)
                    ELSE messages
     /\ chats' = IF touched THEN addMessageTouch(chats, s.chatId, clock + 1) ELSE chats
     /\ clock' = IF touched THEN clock + 1 ELSE clock
     /\ conn' = [conn EXCEPT ![s.conn].storeCalls = @ + 1]

\* lines 157-166: persist the user's message, then the typing indicator
addUserMessage(p, outcome) ==
  /\ sess[p].kind = "ts" /\ sess[p].pc = "addUser"
  /\ relayAddMessage(p, sess[p].content, "USER", outcome)
  /\ IF outcome = "ok" /\ addMessageOk(chats, sess[p].chatId)
     THEN sess' = [sess EXCEPT ![p].pc = "context",
                     ![p].hist = @ \o <<Ev("addMessage", sess[p].content, <<Len(messages) + 1>>),
                                        Ev("llm-typing-start", <<>>, <<>>)>>]
     ELSE sess' = [sess EXCEPT ![p].pc = "done",
                     ![p].hist = catchBlock(@, "addMessage failed")]
  /\ UNCHANGED <<server, nPrompts, activeConnections, restLog, dropped, ctxRead, adapter, client>>

\* lines 168-176: read the chat context and open the inference stream
Part(part, text, row) == [part |-> part, text |-> text, row |-> row]

\* the parts of the text built by buildContextPrompt, in the order it appends
\* them; `row` is history: the message a line of the conversation was read
\* from
buildContextPrompt(rows, chatContext, additionalContext) ==
  <<Part("system", <<>>, 0)>>
  \o (IF additionalContext # NoContext
      THEN <<Part("Additional context", additionalContext, 0)>> ELSE <<>>)
  \o (IF chatContext # NoContext THEN <<Part("Chat context", chatContext, 0)>> ELSE <<>>)
  \o (IF rows # <<>> THEN <<Part("Previous conversation:", <<>>, 0)>> ELSE <<>>)
  \o [i \in 1..Len(rows) |->
        Part(IF messages[rows[i]].role = "USER" THEN "User" ELSE "Assistant",
             messages[rows[i]].content, rows[i])]

\* `${contextPrompt}\n\nUser: ${data.content}\n\nAssistant:`
fullPrompt(rows, chatContext, additionalContext, content) ==
  buildContextPrompt(rows, chatContext, additionalContext)
  \o <<Part("User", content, 0), Part("Assistant:", <<>>, 0)>>

startStream(p, ok) ==
  /\ sess[p].kind = "ts" /\ sess[p].pc = "context"
  /\ LET s == sess[p]
         c == s.conn
         found == getChatById(chats, s.chatId, userIdOf(conn[c].user, s.payloadUser))
     IN IF ok /\ found # NoChat
        THEN /\ sess' = [sess EXCEPT ![p].pc = "streaming",
                           ![p].ctx = getChatContext(messages, s.chatId),
                           ![p].fullPrompt =
                              fullPrompt(getChatContext(messages, s.chatId),
                                         chats[s.chatId].context, s.context, s.content),
                           ![p].hist = @ \o <<Ev("getChatContext", <<>>, <<s.chatId>>),
                                              Ev("infer", s.content, <<>>)>>]
             /\ conn' = [conn EXCEPT ![c].storeCalls = @ + 1, ![c].inferCalls = @ + 1]
        ELSE /\ sess' = [sess EXCEPT ![p].pc = "done",
                           ![p].hist = catchBlock(@, "Chat not found")]
             /\ conn' = [conn EXCEPT ![c].storeCalls = @ + 1]
  /\ UNCHANGED <<server, nPrompts, chats, messages, clock, activeConnections, restLog, dropped, ctxRead, adapter, client>>

\* lines 179-182: one iteration of the for-await loop
accumulateLast(responseContent, chunk) == chunk

\* responseContent += chunk
accumulate(responseContent, chunk) == responseContent \o chunk

relayFragment(p, f) ==
  /\ sess[p].kind = "ts" /\ sess[p].pc = "streaming"
  /\ Len(sess[p].F) < MaxFrags
  /\ f \in TsFragTexts(Len(sess[p].F) + 1)
  /\ sess' = [sess EXCEPT ![p].F = Append(@, f),
                ![p].responseContent = accumulate(@, f),
                ![p].hist = Append(@, Ev("llm-response-chunk", f, <<>>))]
  /\ UNCHANGED <<server, conn, nPrompts, chats, messages, clock, activeConnections, restLog, dropped, ctxRead, adapter, client>>

\* the stream signals completion: the loop exits
streamEnd(p) ==
  /\ sess[p].kind = "ts" /\ sess[p].pc = "streaming"
  /\ sess' = [sess EXCEPT ![p].pc = "persisting"]
  /\ UNCHANGED <<server, conn, nPrompts, chats, messages, clock, activeConnections, restLog, dropped, ctxRead, adapter, client>>

\* the stream raises: control passes to the catch block
streamError(p) ==
  /\ sess[p].kind = "ts" /\ sess[p].pc = "streaming"
  /\ sess' = [sess EXCEPT ![p].pc = "done", ![p].hist = catchBlock(@, "inference failed")]
  /\ UNCHANGED <<server, conn, nPrompts, chats, messages, clock, activeConnections, restLog, dropped, ctxRead, adapter, client>>

\* the completion signal followed by an error signal
completeEventsThenError(msgId, chatId) ==
  <<Ev("addMessage", <<>>, <<msgId>>),
    Ev("llm-typing-end", <<>>, <<>>),
    Ev("llm-response-complete", <<>>, <<msgId, chatId>>),
    Ev("llm-response-error", <<"late">>, <<>>)>>

\* typing end emitted before the assistant message is persisted
completeEventsTypingFirst(msgId, chatId) ==
  <<Ev("llm-typing-end", <<>>, <<>>),
    Ev("addMessage", <<>>, <<msgId>>),
    Ev("llm-response-complete", <<>>, <<msgId, chatId>>)>>

\* the assistant message is persisted, then typing end and the completion
\* signal are emitted (lines 184-197)
completeEvents(msgId, chatId) ==
  <<Ev("addMessage", <<>>, <<msgId>>),
    Ev("llm-typing-end", <<>>, <<>>),
    Ev("llm-response-complete", <<>>, <<msgId, chatId>>)>>

\* lines 184-197: persist the assistant message, then typing end and completion
persistResponse(p, outcome) ==
  /\ sess[p].kind = "ts" /\ sess[p].pc = "persisting"
  /\ relayAddMessage(p, sess[p].responseContent, "ASSISTANT", outcome)
  /\ IF outcome = "ok" /\ addMessageOk(chats, sess[p].chatId)
     THEN sess' = [sess EXCEPT ![p].pc = "done",
                     ![p].hist = @ \o completeEvents(Len(messages) + 1, sess[p].chatId)]
     ELSE sess' = [sess EXCEPT ![p].pc = "done",
                     ![p].hist = catchBlock(@, "addMessage failed")]
  /\ UNCHANGED <<server, nPrompts, activeConnections, restLog, dropped, ctxRead, adapter, client>>

(* ---------------------- ChatController (REST) -------------------------- *)
\* POST /api/chats by the authenticated user u
restCreateChat(u) ==
  /\ server = "express"
  /\ Len(chats) + Cardinality(Resolving) < MaxChats
  /\ chats' = createChat(chats, u, "T", NoContext, clock + 1)
  /\ clock' = clock + 1
  /\ UNCHANGED <<server, conn, sess, nPrompts, messages, activeConnections, restLog, dropped, ctxRead, adapter, client>>

\* POST /api/chats/:chatId/messages by the authenticated user u
restAddMessage(u, chatId, content, role) ==
  /\ server = "express"
  /\ Len(restLog) < MaxRest
  /\ IF chatId = NoChat \/ content = <<>> \/ role \notin Roles
     THEN /\ restLog' = Append(restLog, 400)
          /\ UNCHANGED <<server, chats, messages, clock>>
     ELSE IF addMessageOk(chats, chatId)
     THEN /\ messages' = addMessageRow(messages, chatId, u, content, role, 0)
          /\ chats' = addMessageTouch(chats, chatId, clock + 1)
          /\ clock' = clock + 1
          /\ restLog' = Append(restLog, 201)
     ELSE /\ restLog' = Append(restLog, 500)
          /\ UNCHANGED <<server, chats, messages, clock>>
  /\ UNCHANGED <<server, conn, sess, nPrompts, activeConnections, dropped, ctxRead, adapter, client>>

(* ------------------- message (chat.js), buffering relay ----------------- *)
\* flushBuffer without the emptiness test
flushBufferAlways(s) ==
  [s EXCEPT !.hist = Append(@, Ev("llm-response-chunk", s.buffer, <<>>)),
            !.buffer = <<>>]

\* flushBuffer that emits every character of the accumulator as its own chunk
flushBufferSplit(s) ==
  IF s.buffer # <<>>
  THEN [s EXCEPT !.hist = @ \o [k \in 1..Len(s.buffer) |->
                                  Ev("llm-response-chunk", <<s.buffer[k]>>, <<>>)],
                 !.buffer = <<>>]
  ELSE s

\* flushBuffer that emits the accumulator and forgets to clear it
flushBufferKeeps(s) ==
  IF s.buffer # <<>>
  THEN [s EXCEPT !.hist = Append(@, Ev("llm-response-chunk", s.buffer, <<>>))]
  ELSE s

\* flushBuffer: one chunk with the whole accumulator when it is non-empty
flushBuffer(s) ==
  IF s.buffer # <<>>
  THEN [s EXCEPT !.hist = Append(@, Ev("llm-response-chunk", s.buffer, <<>>)),
                 !.buffer = <<>>]
  ELSE s

\* the chat-with-llm listener up to the first iteration: model.stream is called
message(c, content) ==
  /\ conn[c].state = "open" /\ conn[c].kind = "js" /\ conn[c].registered
  /\ nPrompts < MaxPrompts
  /\ nPrompts' = nPrompts + 1
  /\ sess' = [sess EXCEPT ![nPrompts + 1] =
                [NoSess EXCEPT !.kind = "js", !.conn = c, !.content = content,
                               !.pc = "streaming", !.idle = Idle(c),
                               !.hist = <<Ev("infer", content, <<>>)>>]]
  /\ conn' = [conn EXCEPT ![c].inferCalls = @ + 1]
  /\ UNCHANGED <<server, chats, messages, clock, activeConnections, restLog, dropped, ctxRead, adapter, client>>

\* setTimeout on every fragment, whether or not a timer is armed
armTimerAlways(s) == [s EXCEPT !.timer = TRUE, !.armed = @ + 1]

\* lines 22-27: if (!timer) timer = setTimeout(...); `armed` counts the
\* callbacks that setTimeout has scheduled and that have not run yet
armTimer(s) ==
  IF ~s.timer THEN [s EXCEPT !.timer = TRUE, !.armed = @ + 1] ELSE s

\* lines 20-28: append the fragment, arm the timer when none is armed;
\* history: `burst` notes a fragment that found the timer already armed
messageFragment(p, f) ==
  /\ sess[p].kind = "js" /\ sess[p].pc = "streaming"
  /\ Len(sess[p].F) < MaxFrags
  /\ f \in FragTexts(Len(sess[p].F) + 1)
  /\ sess' = [sess EXCEPT ![p] =
                [armTimer(sess[p]) EXCEPT !.F = Append(@, f),
                                          !.buffer = @ \o f,
                                          !.burst = @ \/ sess[p].timer]]
  /\ UNCHANGED <<server, conn, nPrompts, chats, messages, clock, activeConnections, restLog, dropped, ctxRead, adapter, client>>

\* a timer callback working on an accumulator shared by every session
timerFireShared(p) ==
  /\ sess[p].kind = "js" /\ sess[p].armed > 0
  /\ sess' = [q \in 1..MaxPrompts |->
                IF q = p THEN [flushBuffer(sess[q]) EXCEPT !.timer = FALSE, !.armed = @ - 1]
                ELSE IF sess[q].kind = "js" THEN [sess[q] EXCEPT !.buffer = <<>>]
                ELSE sess[q]]
  /\ UNCHANGED <<server, conn, nPrompts, chats, messages, clock, activeConnections, restLog, dropped, ctxRead, adapter, client>>

\* lines 23-26: the setTimeout callback
timerFire(p) ==
  /\ sess[p].kind = "js" /\ sess[p].armed > 0
  /\ sess' = [sess EXCEPT ![p] = [flushBuffer(sess[p]) EXCEPT !.timer = FALSE,
                                                              !.armed = @ - 1]]
  /\ UNCHANGED <<server, conn, nPrompts, chats, messages, clock, activeConnections, restLog, dropped, ctxRead, adapter, client>>

\* lines 29-31: the loop ends, final flush, end signal
messageEnd(p) ==
  /\ sess[p].kind = "js" /\ sess[p].pc = "streaming"
  /\ sess' = [sess EXCEPT ![p] =
                [flushBuffer(sess[p]) EXCEPT !.pc = "done",
                    !.hist = Append(@, Ev("llm-response-end", <<>>, <<>>))]]
  /\ UNCHANGED <<server, conn, nPrompts, chats, messages, clock, activeConnections, restLog, dropped, ctxRead, adapter, client>>

\* lines 33-38: the stream (or model.stream itself) raises
messageError(p) ==
  /\ sess[p].kind = "js" /\ sess[p].pc = "streaming"
  /\ sess' = [sess EXCEPT ![p].pc = "done",
                ![p].hist = Append(@, Ev("llm-response-error", <<"inference failed">>, <<>>))]
  /\ UNCHANGED <<server, conn, nPrompts, chats, messages, clock, activeConnections, restLog, dropped, ctxRead, adapter, client>>

\* the Express application (ChatSocketHandler over ChatModel, chats also
\* created through REST) or the server of bin/www (socketController)
Next ==
  \/ \E c \in TsConns, t \in TsTokens : handleConnection(c, t)
  \/ \E c \in TsConns : handleDisconnection(c)
  \/ \E c \in TsConns, e \in ClientEvents : ClientSendOnClosed(c, e)
  \/ \E c \in TsConns, t \in Contents, r \in {NoChat} \cup ChatIds : handleChatWithLLM(c, t, r, NoContext)
  \/ \E p \in 1..MaxPrompts, ok \in BOOLEAN : resolveChat(p, ok)
  \/ \E p \in 1..MaxPrompts, o \in StoreOutcomes : addUserMessage(p, o)
  \/ \E p \in 1..MaxPrompts, ok \in BOOLEAN : startStream(p, ok)
  \/ \E p \in 1..MaxPrompts, f \in {<<Letters[i]>> : i \in 1..MaxFrags} : relayFragment(p, f)
  \/ \E p \in 1..MaxPrompts : streamEnd(p)
  \/ \E p \in 1..MaxPrompts : streamError(p)
  \/ \E p \in 1..MaxPrompts, o \in StoreOutcomes : persistResponse(p, o)
  \/ \E u \in RestUsers : restCreateChat(u)
  \/ \E c \in Conns, t \in JsTokens : socketController(c, t)
  \/ \E c \in Conns : clientClose(c)
  \/ \E c \in Conns : message(c, <<"h">>)
  \/ \E p \in 1..MaxPrompts, f \in {<<>>} \cup {<<Letters[i]>> : i \in 1..MaxFrags} : messageFragment(p, f)
  \/ \E p \in 1..MaxPrompts : timerFire(p)
  \/ \E p \in 1..MaxPrompts : messageEnd(p)
  \/ \E p \in 1..MaxPrompts : messageError(p)

Spec == Init /\ [][Next]_vars

\* the REST interface of the Express application over the store
NextRest ==
  \/ \E u \in Users : restCreateChat(u)
  \/ \E u \in Users, r \in {NoChat} \cup ChatIds, t \in RestContents, role \in Roles :
        restAddMessage(u, r, t, role)

SpecRest == Init /\ [][NextRest]_vars

(* ------------------ ChatModel called directly: context ----------------- *)
\* the store holds one chat of u1 and no message
InitContext ==
  /\ server = "express"
  /\ conn = [c \in Conns |-> NewConn]
  /\ sess = [p \in 1..MaxPrompts |-> NoSess]
  /\ nPrompts = 0
  /\ chats = createChat(<<>>, "u1", "T", NoContext, 1)
  /\ messages = <<>>
  /\ clock = 1
  /\ activeConnections = 0
  /\ restLog = <<>>
  /\ dropped = <<>>
  /\ ctxRead = NoRead
  /\ client = NoClient
  /\ adapter = NoStream

\* ChatModel.addMessage(chatId, userId, content, role) returning the row; the
\* turns of a conversation alternate between the user and the assistant
addMessage(chatId, userId, content) ==
  /\ Len(messages) < MaxStored
  /\ addMessageOk(chats, chatId)
  /\ messages' = addMessageRow(messages, chatId, userId, content,
                               IF Len(messages) % 2 = 0 THEN "USER" ELSE "ASSISTANT", 0)
  /\ chats' = addMessageTouch(chats, chatId, clock + 1)
  /\ clock' = clock + 1
  /\ UNCHANGED <<server, conn, sess, nPrompts, activeConnections, restLog, dropped, ctxRead, adapter, client>>

\* ChatModel.getChatContext(chatId, userId) of the Prisma model returning
readContext(chatId, userId) ==
  /\ getChatById(chats, chatId, userId) # NoChat
  /\ ctxRead' = [impl |-> "prisma", chatId |-> chatId,
                 rows |-> getChatContext(messages, chatId),
                 total |-> Len(MessagesOf(messages, chatId, 1))]
  /\ UNCHANGED <<server, conn, sess, nPrompts, chats, messages, clock, activeConnections, restLog, dropped, adapter, client>>

\* ChatModel.getChatContext(chatId, userId) of the in-memory model
readContextInMemory(chatId, userId) ==
  /\ getChatById(chats, chatId, userId) # NoChat
  /\ ctxRead' = [impl |-> "memory", chatId |-> chatId,
                 rows |-> getChatContextInMemory(messages, chatId),
                 total |-> Len(MessagesOf(messages, chatId, 1))]
  /\ UNCHANGED <<server, conn, sess, nPrompts, chats, messages, clock, activeConnections, restLog, dropped, adapter, client>>

NextContext ==
  \/ \E r \in ChatIds : addMessage(r, "u1", <<"r">>)
  \/ \E r \in ChatIds, u \in Users : readContext(r, u)
  \/ \E r \in ChatIds, u \in Users : readContextInMemory(r, u)

SpecContext == InitContext /\ [][NextContext]_vars

\* the Express application is the one deployed
InitExpress == Init /\ server = "express"

(* ---------- ChatSocketHandler: the chat management listeners ---------- *)
\* handleCreateChat, run on 'create-chat' with the title S and a context
handleCreateChat(c, context, ok) ==
  /\ conn[c].state = "open" /\ conn[c].kind = "ts" /\ conn[c].registered
  /\ Len(conn[c].log) < MaxMgmt
  /\ Len(chats) + Cardinality(Resolving) < MaxChats
  /\ IF conn[c].user = NoUser
     THEN /\ conn' = [conn EXCEPT ![c].log = Append(@, "error")]
          /\ UNCHANGED <<chats, clock>>
     ELSE IF ok
     THEN /\ chats' = createChat(chats, conn[c].user, "S", context, clock + 1)
          /\ clock' = clock + 1
          /\ conn' = [conn EXCEPT ![c].log = Append(@, "chat-created"),
                                  ![c].storeCalls = @ + 1]
     ELSE /\ conn' = [conn EXCEPT ![c].log = Append(@, "error"), ![c].storeCalls = @ + 1]
          /\ UNCHANGED <<chats, clock>>
  /\ UNCHANGED <<server, sess, nPrompts, messages, activeConnections, restLog, dropped, ctxRead, adapter, client>>

\* handleGetUserChats, run on 'get-user-chats'
handleGetUserChats(c) ==
  /\ conn[c].state = "open" /\ conn[c].kind = "ts" /\ conn[c].registered
  /\ Len(conn[c].log) < MaxMgmt
  /\ IF conn[c].user = NoUser
     THEN conn' = [conn EXCEPT ![c].log = Append(@, "error")]
     ELSE conn' = [conn EXCEPT ![c].log = Append(@, "user-chats"),
                               ![c].listed = getUserChats(chats, conn[c].user),
                               ![c].storeCalls = @ + 1]
  /\ UNCHANGED <<server, sess, nPrompts, chats, messages, clock, activeConnections, restLog, dropped, ctxRead, adapter, client>>

\* handleDeleteChat, run on 'delete-chat' naming chatId
handleDeleteChat(c, chatId) ==
  /\ conn[c].state = "open" /\ conn[c].kind = "ts" /\ conn[c].registered
  /\ Len(conn[c].log) < MaxMgmt
  /\ IF conn[c].user = NoUser
     THEN /\ conn' = [conn EXCEPT ![c].log = Append(@, "error")]
          /\ UNCHANGED chats
     ELSE /\ chats' = deleteChat(chats, chatId, conn[c].user)
          /\ conn' = [conn EXCEPT ![c].log = Append(@, "chat-deleted"),
                                  ![c].storeCalls = @ + 1]
  /\ UNCHANGED <<server, sess, nPrompts, messages, clock, activeConnections, restLog, dropped, ctxRead, adapter, client>>

\* ChatSocketHandler with all its listeners; the other user's chats come
\* into being through REST
NextIdentity ==
  \/ \E c \in TsConns, t \in TsTokens : handleConnection(c, t)
  \/ \E c \in TsConns, t \in Contents, r \in {NoChat} \cup ChatIds : handleChatWithLLM(c, t, r, NoContext)
  \/ \E p \in 1..MaxPrompts, ok \in BOOLEAN : resolveChat(p, ok)
  \/ \E p \in 1..MaxPrompts, o \in StoreOutcomes : addUserMessage(p, o)
  \/ \E p \in 1..MaxPrompts, ok \in BOOLEAN : startStream(p, ok)
  \/ \E p \in 1..MaxPrompts : relayFragment(p, <<Letters[1]>>)
  \/ \E p \in 1..MaxPrompts : streamEnd(p)
  \/ \E p \in 1..MaxPrompts : streamError(p)
  \/ \E p \in 1..MaxPrompts, o \in StoreOutcomes : persistResponse(p, o)
  \/ restCreateChat("u2")
  \/ \E c \in TsConns, ok \in BOOLEAN : handleCreateChat(c, NoContext, ok)
  \/ \E c \in TsConns : handleGetUserChats(c)
  \/ \E c \in TsConns, r \in ChatIds : handleDeleteChat(c, r)

SpecIdentity == InitExpress /\ [][NextIdentity]_vars

(* ------- ChatSocketHandler: prompts and chats that carry contexts ------ *)
\* the store and the adapter answer every call; chats are created with and
\* without a context, prompts are sent with and without one
NextPrompt ==
  \/ \E c \in TsConns, t \in TsTokens : handleConnection(c, t)
  \/ \E c \in TsConns, x \in ChatContexts : handleCreateChat(c, x, TRUE)
  \/ \E c \in TsConns, t \in Contents, r \in {NoChat} \cup ChatIds, k \in PayloadContexts :
       handleChatWithLLM(c, t, r, k)
  \/ \E p \in 1..MaxPrompts : resolveChat(p, TRUE)
  \/ \E p \in 1..MaxPrompts : addUserMessage(p, "ok")
  \/ \E p \in 1..MaxPrompts : startStream(p, TRUE)
  \/ \E p \in 1..MaxPrompts, f \in {<<Letters[i]>> : i \in 1..MaxFrags} : relayFragment(p, f)
  \/ \E p \in 1..MaxPrompts : streamEnd(p)
  \/ \E p \in 1..MaxPrompts : persistResponse(p, "ok")

SpecPrompt == InitExpress /\ [][NextPrompt]_vars

(* ------------- ChatSocketHandler alone, its awaits answered ------------ *)

\* the socket events and handler steps of ChatSocketHandler
NextExpress ==
  \/ \E c \in TsConns, t \in TsTokens : handleConnection(c, t)
  \/ \E c \in TsConns : handleDisconnection(c)
  \/ \E c \in TsConns, t \in Contents, r \in {NoChat} \cup ChatIds : handleChatWithLLM(c, t, r, NoContext)
  \/ \E p \in 1..MaxPrompts, ok \in BOOLEAN : resolveChat(p, ok)
  \/ \E p \in 1..MaxPrompts, o \in StoreOutcomes : addUserMessage(p, o)
  \/ \E p \in 1..MaxPrompts, ok \in BOOLEAN : startStream(p, ok)
  \/ \E p \in 1..MaxPrompts, f \in {<<Letters[i]>> : i \in 1..MaxFrags} : relayFragment(p, f)
  \/ \E p \in 1..MaxPrompts : streamEnd(p)
  \/ \E p \in 1..MaxPrompts : streamError(p)
  \/ \E p \in 1..MaxPrompts, o \in StoreOutcomes : persistResponse(p, o)

\* every awaited collaborator call of a handler returns or throws, and the
\* inference stream, a finite sequence, ends or raises
AwaitsAnswered ==
  \A p \in 1..MaxPrompts :
    /\ WF_vars(\E ok \in BOOLEAN : resolveChat(p, ok))
    /\ WF_vars(\E o \in StoreOutcomes : addUserMessage(p, o))
    /\ WF_vars(\E ok \in BOOLEAN : startStream(p, ok))
    /\ WF_vars(streamEnd(p) \/ streamError(p))
    /\ WF_vars(\E o \in StoreOutcomes : persistResponse(p, o))

SpecExpressLive == InitExpress /\ [][NextExpress]_vars /\ AwaitsAnswered

(* ------------- fragments as the model runtimes deliver them ------------ *)
\* a fragment as delivered: an object with a content field, an object without
\* one, undefined, or a raw string
Chunk(shape, content) == [shape |-> shape, content |-> content]

\* ChatOllama.stream yields message chunks; the i-th has the i-th letter as
\* content, or empty content, or none, or is missing altogether
ChatOllamaChunks(i) ==
  {Chunk("object", <<Letters[i]>>), Chunk("object", <<>>),
   Chunk("objectNoContent", <<>>), Chunk("undefined", <<>>)}

\* Ollama.stream yields strings, possibly empty
OllamaChunks(i) == {Chunk("string", <<Letters[i]>>), Chunk("string", <<>>)}

ChunksOf(runtime, i) ==
  IF runtime = "ChatOllama" THEN ChatOllamaChunks(i) ELSE OllamaChunks(i)

\* the streams of at most MaxShaped fragments a runtime can deliver
StreamsOf(runtime) ==
  UNION {{st \in [1..n -> UNION {ChunksOf(runtime, i) : i \in 1..MaxShaped}] :
            \A i \in 1..n : st[i] \in ChunksOf(runtime, i)} : n \in 0..MaxShaped}

\* chunk?.content with no default: JavaScript appends the text "undefined"
contentNoDefault(chunk) ==
  IF chunk.shape = "object" THEN chunk.content ELSE <<"undefined">>

\* chat.js line 21: chunk?.content || ''
contentOrEmpty(chunk) ==
  IF chunk.shape = "object" /\ chunk.content # <<>> THEN chunk.content ELSE <<>>

\* chat.ts line 180: the string that += appends for a chunk
plusString(chunk) ==
  IF chunk.shape = "string" THEN chunk.content
  ELSE IF chunk.shape = "undefined" THEN <<"undefined">>
  ELSE <<"[object Object]">>

InitFragments ==
  /\ server \in Servers
  /\ conn = [c \in Conns |-> NewConn]
  /\ sess = [p \in 1..MaxPrompts |-> NoSess]
  /\ nPrompts = 0
  /\ chats = <<>>
  /\ messages = <<>>
  /\ clock = 0
  /\ activeConnections = 0
  /\ restLog = <<>>
  /\ dropped = <<>>
  /\ ctxRead = NoRead
  /\ client = NoClient
  /\ \E r \in {"ChatOllama", "Ollama"} : \E st \in StreamsOf(r) :
       /\ (r = "ChatOllama") = (server = "www")
       /\ adapter = [runtime |-> r, stream |-> st, pos |-> 0, text |-> <<>>]

\* chat.js lines 20-21: one iteration appends to the accumulator
appendContent ==
  /\ adapter.runtime = "ChatOllama" /\ adapter.pos < Len(adapter.stream)
  /\ adapter' = [adapter EXCEPT !.pos = @ + 1,
                    !.text = @ \o contentOrEmpty(adapter.stream[adapter.pos + 1])]
  /\ UNCHANGED <<server, conn, sess, nPrompts, chats, messages, clock, activeConnections, restLog, dropped, ctxRead, client>>

\* chat.ts lines 179-180: one iteration appends to responseContent
appendChunk ==
  /\ adapter.runtime = "Ollama" /\ adapter.pos < Len(adapter.stream)
  /\ adapter' = [adapter EXCEPT !.pos = @ + 1,
                    !.text = @ \o plusString(adapter.stream[adapter.pos + 1])]
  /\ UNCHANGED <<server, conn, sess, nPrompts, chats, messages, clock, activeConnections, restLog, dropped, ctxRead, client>>

NextFragments == appendContent \/ appendChunk

SpecFragments == InitFragments /\ [][NextFragments]_vars

(* ======================= properties of the relay ======================== *)
Prompts == {p \in 1..MaxPrompts : sess[p].pc # "unused"}

RECURSIVE Concat(_)
Concat(ss) == IF ss = <<>> THEN <<>> ELSE Head(ss) \o Concat(Tail(ss))

\* the positions of the entries named e in a timeline
Positions(h, e) == {i \in 1..Len(h) : h[i].ev = e}
Has(h, e) == Positions(h, e) # {}

\* the concatenation of the chunk payloads of a timeline, in order
RECURSIVE ChunkText(_)
ChunkText(h) ==
  IF h = <<>> THEN <<>>
  ELSE (IF Head(h).ev = "llm-response-chunk" THEN Head(h).text ELSE <<>>) \o ChunkText(Tail(h))

TerminalEvents == {"llm-response-end", "llm-response-complete", "llm-response-error"}
TerminalPositions(h) == {i \in 1..Len(h) : h[i].ev \in TerminalEvents}

\* the stream of prompt p has ended by itself
NaturalEnd(p) ==
  \/ Has(sess[p].hist, "llm-response-end")
  \/ Has(sess[p].hist, "llm-response-complete")
  \/ sess[p].pc = "persisting"

\* the Message rows written for prompt p with the given role
RowsOf(ms, p, role) == {i \in 1..Len(ms) : ms[i].prompt = p /\ ms[i].role = role}

\* C1: for every prompt, in both handlers, the chunk payloads emitted so far
\* followed by the text still held in the accumulator are exactly the
\* fragments consumed so far, in order; once the stream has ended by itself
\* the chunk payloads alone are the concatenation of all the fragments
C1_ChunksAreTheFragments ==
  \A p \in Prompts :
    /\ ChunkText(sess[p].hist) \o sess[p].buffer = Concat(sess[p].F)
    /\ NaturalEnd(p) => ChunkText(sess[p].hist) = Concat(sess[p].F)

\* a buffered prompt whose two non-empty fragments went out as two chunks
C1_Witness ==
  \E p \in Prompts :
    /\ sess[p].kind = "js" /\ Has(sess[p].hist, "llm-response-end")
    /\ sess[p].F = <<<<"a">>, <<"b">>>>
    /\ Cardinality(Positions(sess[p].hist, "llm-response-chunk")) = 2

\* C2: once the completion or error signal of a prompt has been emitted,
\* nothing is left in the accumulator and no chunk follows the signal: the
\* final flush came first
C2_FinalFlushBeforeSignal ==
  \A p \in Prompts : \A t \in TerminalPositions(sess[p].hist) :
    /\ sess[p].buffer = <<>>
    /\ \A i \in Positions(sess[p].hist, "llm-response-chunk") : i < t

\* C3: after the socket closed while a prompt was Streaming, the relay
\* consumes no further fragment and persists no assistant message for it
C3_CloseCancelsStream ==
  [][\A p \in 1..MaxPrompts : sess[p].cut =>
        /\ sess'[p].F = sess[p].F
        /\ RowsOf(messages', p, "ASSISTANT") = {}]_vars

\* the prompts of socket c that have begun and not yet finished
Active(c) == {p \in Prompts : sess[p].conn = c /\ sess[p].pc # "done"}

\* C4: a socket never has two prompts in progress at once
C4_OneActivePromptPerSocket ==
  \A c \in Conns : Cardinality(Active(c)) <= 1

\* C5: no Message row sits in a chat owned by a user other than the row's
\* author: appending to another user's chat is rejected
C5_AppendRejectsForeignChat ==
  \A i \in 1..Len(messages) : chats[messages[i].chatId].userId = messages[i].userId

\* the user bound to the socket of prompt p
UserOf(p) == conn[sess[p].conn].user

\* prompt p names a chat that belongs to somebody else
Foreign(p) ==
  /\ sess[p].reqChat \in 1..Len(chats)
  /\ chats[sess[p].reqChat].userId # UserOf(p)

\* C6: a prompt of ChatSocketHandler that names another user's chat resolves
\* as not found: a new chat of the socket's user is created and announced,
\* every message of the prompt is written to that new chat, and the context
\* read for the prompt holds no message of the other user's chat
C6_ForeignChatNeverUsed ==
  \A p \in Prompts : (sess[p].kind = "ts" /\ Foreign(p)) =>
    /\ ~Has(sess[p].hist, "getChatById")
    /\ \A i \in 1..Len(messages) : messages[i].prompt = p =>
         /\ messages[i].chatId = sess[p].chatId
         /\ messages[i].chatId # sess[p].reqChat
         /\ messages[i].userId = UserOf(p)
    /\ \A k \in 1..Len(sess[p].ctx) : messages[sess[p].ctx[k]].chatId # sess[p].reqChat
    /\ sess[p].pc \in {"addUser", "context", "streaming", "persisting"} =>
         Has(sess[p].hist, "createChat")
    /\ Has(sess[p].hist, "createChat") =>
         /\ sess[p].chatId # sess[p].reqChat
         /\ chats[sess[p].chatId].userId = UserOf(p)
         /\ chats[sess[p].chatId].title = "New Chat"
         /\ \E i \in Positions(sess[p].hist, "chat-created") : sess[p].hist[i].ref = <<sess[p].chatId>>

\* a prompt naming another user's chat has completed
C6_Witness ==
  \E p \in Prompts :
    /\ Foreign(p) /\ Has(sess[p].hist, "llm-response-complete")
    /\ Cardinality({i \in 1..Len(messages) : messages[i].prompt = p}) = 2

BadCredentials == {"missing", "invalid"}

\* C7: a socket opened on ChatSocketHandler with a missing or invalid
\* credential is answered with auth_error and closed, no listener is
\* registered, and nothing sent on it afterwards starts a prompt, a storage
\* call or an inference call
C7_RejectedSocketProcessesNothing ==
  \A c \in Conns : (conn[c].kind = "ts" /\ conn[c].cred \in BadCredentials) =>
    /\ conn[c].log = <<"auth_error", "disconnect">>
    /\ conn[c].state = "closed"
    /\ ~conn[c].registered
    /\ conn[c].user = NoUser
    /\ \A p \in Prompts : sess[p].conn # c
    /\ conn[c].storeCalls = 0 /\ conn[c].inferCalls = 0

\* a chat-with-llm event was sent on a socket rejected for its invalid token
C7_Witness ==
  \E c \in Conns :
    /\ conn[c].kind = "ts" /\ conn[c].cred = "invalid"
    /\ \E i \in 1..Len(dropped) : dropped[i] = <<c, "chat-with-llm">>

\* C8: a chat-with-llm event on a socket without a bound user starts no
\* inference call and no storage call, and the socket has been answered with
\* auth_error and closed
C8_UnboundSocketNeverRelays ==
  \A p \in Prompts : UserOf(p) = NoUser =>
    /\ ~Has(sess[p].hist, "infer")
    /\ conn[sess[p].conn].inferCalls = 0
    /\ conn[sess[p].conn].storeCalls = 0
    /\ conn[sess[p].conn].log = <<"auth_error", "disconnect">>

\* the inference stream of prompt p raised
StreamRaised(p) ==
  /\ sess[p].pc = "done"
  /\ sess[p].hist # <<>>
  /\ sess[p].hist[Len(sess[p].hist)].ev = "llm-response-error"
  /\ sess[p].hist[Len(sess[p].hist)].text = <<"inference failed">>

\* the timeline entries of p that record the persisted message of a role
PersistPositions(p, role) ==
  {i \in Positions(sess[p].hist, "addMessage") :
     messages[sess[p].hist[i].ref[1]].role = role}

\* C9: the user's message is persisted before the inference call; when the
\* stream raises, the timeline ends with llm-typing-end, llm-response-error,
\* the prompt's user message is stored exactly once with the prompt's content,
\* and no assistant message is stored for the prompt
C9_InferenceFailureKeepsPrompt ==
  \A p \in Prompts : sess[p].kind = "ts" =>
    /\ \A i \in Positions(sess[p].hist, "infer") :
         \E j \in PersistPositions(p, "USER") :
           /\ j < i
           /\ messages[sess[p].hist[j].ref[1]].prompt = p
           /\ messages[sess[p].hist[j].ref[1]].content = sess[p].content
    /\ StreamRaised(p) =>
         LET n == Len(sess[p].hist) IN
         /\ n >= 2 /\ sess[p].hist[n - 1].ev = "llm-typing-end"
         /\ Cardinality(TerminalPositions(sess[p].hist)) = 1
         /\ Cardinality(RowsOf(messages, p, "USER")) = 1
         /\ \A i \in RowsOf(messages, p, "USER") : messages[i].content = sess[p].content
         /\ RowsOf(messages, p, "ASSISTANT") = {}

\* the stream raised after two fragments had been relayed
C9_Witness ==
  \E p \in Prompts :
    /\ StreamRaised(p) /\ Len(sess[p].F) = 2
    /\ Cardinality(Positions(sess[p].hist, "llm-response-chunk")) = 2

\* C10 as stated: before every completion signal, llm-typing-end was emitted
\* and after it the assistant message was persisted
C10_TypingEndBeforePersist ==
  \A p \in Prompts : \A k \in Positions(sess[p].hist, "llm-response-complete") :
    \E i \in Positions(sess[p].hist, "llm-typing-end") :
      \E j \in PersistPositions(p, "ASSISTANT") : i < j /\ j < k

\* C10 as amended: a completed prompt's timeline ends with the persisting of
\* the assistant message, then llm-typing-end, then the completion signal;
\* the assistant text is stored as exactly one message holding all the
\* fragments, the signal carries that message and the chat id, and the
\* handler has finished
C10_PersistThenTypingEndThenComplete ==
  \A p \in Prompts : sess[p].kind = "ts" =>
    /\ Has(sess[p].hist, "llm-response-complete") =>
         LET h == sess[p].hist
             n == Len(h)
         IN /\ n >= 3
            /\ h[n - 2].ev = "addMessage" /\ h[n - 1].ev = "llm-typing-end"
            /\ h[n].ev = "llm-response-complete"
            /\ Cardinality(Positions(h, "llm-typing-end")) = 1
            /\ Cardinality(TerminalPositions(h)) = 1
            /\ RowsOf(messages, p, "ASSISTANT") = {h[n - 2].ref[1]}
            /\ messages[h[n - 2].ref[1]].content = Concat(sess[p].F)
            /\ messages[h[n - 2].ref[1]].chatId = sess[p].chatId
            /\ h[n].ref = <<h[n - 2].ref[1], sess[p].chatId>>
            /\ sess[p].pc = "done"

\* a prompt completed after two fragments
C10_Witness ==
  \E p \in Prompts :
    /\ Has(sess[p].hist, "llm-response-complete") /\ Len(sess[p].F) = 2

\* the catch block of prompt p ran: the timeline ends with the error signal
Failed(p) ==
  /\ sess[p].hist # <<>>
  /\ sess[p].hist[Len(sess[p].hist)].ev = "llm-response-error"

\* C11: when a step of a prompt of ChatSocketHandler failed, llm-typing-end
\* was emitted if and only if llm-typing-start had been emitted before it
C11_TypingEndIffTypingStart ==
  \A p \in Prompts : (sess[p].kind = "ts" /\ Failed(p)) =>
    (Has(sess[p].hist, "llm-typing-end") <=>
       \E i \in Positions(sess[p].hist, "llm-typing-start") :
         \E j \in Positions(sess[p].hist, "llm-typing-end") : i < j)

\* the pc values of a prompt whose handler is past validation and not finished
Running == {"resolving", "addUser", "context", "streaming", "persisting"}

\* the natural completion signal of prompt p has been emitted
Completed(p) ==
  \/ Has(sess[p].hist, "llm-response-complete")
  \/ Has(sess[p].hist, "llm-response-end")

\* C12: a step that ends a running prompt without its completion signal (the
\* chat resolution, a persistence call or the inference stream failed) emits
\* llm-response-error as the last event of the handler, exactly once, and
\* leaves the socket open, bound and listening; a finished prompt that did not
\* complete has its error event
C12_FailureBecomesErrorEvent ==
  [][\A p \in 1..MaxPrompts :
       (sess[p].pc \in Running /\ sess'[p].pc = "done" /\ ~Completed(p)') =>
         LET c == sess[p].conn
             h == sess'[p].hist
         IN /\ h # <<>> /\ h[Len(h)].ev = "llm-response-error"
            /\ Cardinality(Positions(h, "llm-response-error")) = 1
            /\ conn'[c].state = conn[c].state
            /\ conn'[c].registered = conn[c].registered
            /\ conn'[c].user = conn[c].user]_vars

\* on one open socket a prompt failed and a prompt sent after that failure
\* completed
C12_Witness ==
  \E p \in Prompts, q \in Prompts :
    /\ p < q /\ sess[p].conn = sess[q].conn /\ sess[q].idle
    /\ Failed(p) /\ Completed(q) /\ ~Failed(q)
    /\ conn[sess[q].conn].state = "open"

\* the most recent n entries of a sequence
LastN(seq, n) == SubSeq(seq, Len(seq) - Min(n, Len(seq)) + 1, Len(seq))

\* C13: a context read returns the most recent 20 messages the chat held at
\* the call, creation-time ascending: for a chat of more than 20 messages
\* exactly the last 20, the oldest being left out
C13_ContextIsMostRecentTwenty ==
  ctxRead.impl # "none" =>
    ctxRead.rows = LastN(SubSeq(MessagesOf(messages, ctxRead.chatId, 1), 1, ctxRead.total),
                         ContextLimit)

\* the events a handler emits to the client, as opposed to its calls
EmittedEvents == {"error", "chat-created", "llm-typing-start", "llm-response-chunk",
                  "llm-typing-end", "llm-response-complete", "llm-response-end",
                  "llm-response-error"}
IsEmitted(e) == e.ev \in EmittedEvents
Emitted(h) == SelectSeq(h, IsEmitted)

\* prompt p names an existing chat of its socket's user
Owned(p) ==
  /\ sess[p].reqChat \in 1..Len(chats)
  /\ chats[sess[p].reqChat].userId = UserOf(p)

\* C14: when the chat resolution of a prompt returns, then, if the prompt
\* named no chat or a chat that does not exist or belongs to somebody else,
\* exactly one chat row titled "New Chat" owned by the socket's user was added
\* and chat-created carrying the new id is the only event emitted so far;
\* otherwise the named chat is used, no row was added and nothing was
\* emitted. A failed resolution adds no row. chat-created is never emitted
\* twice for a prompt, and only as its first event
C14_ResolveCreatesOrReuses ==
  [][\A p \in 1..MaxPrompts :
       /\ (sess[p].kind = "ts" /\ sess[p].pc = "resolving" /\ sess'[p].pc = "addUser") =>
            LET id == sess'[p].chatId
                e == Emitted(sess'[p].hist)
            IN IF Owned(p)
               THEN /\ chats' = chats
                    /\ id = sess[p].reqChat
                    /\ e = <<>>
               ELSE /\ Len(chats') = Len(chats) + 1
                    /\ SubSeq(chats', 1, Len(chats)) = chats
                    /\ id = Len(chats')
                    /\ chats'[id].title = "New Chat"
                    /\ chats'[id].userId = UserOf(p)
                    /\ e = <<Ev("chat-created", <<>>, <<id>>)>>
       /\ (sess[p].pc = "resolving" /\ sess'[p].pc = "done") =>
            /\ chats' = chats
            /\ ~Has(sess'[p].hist, "chat-created")
       /\ Has(sess'[p].hist, "chat-created") =>
            /\ Cardinality(Positions(sess'[p].hist, "chat-created")) = 1
            /\ Cardinality(Positions(sess'[p].hist, "createChat")) = 1
            /\ Emitted(sess'[p].hist)[1].ev = "chat-created"
            /\ ~Has(sess'[p].hist, "getChatById")]_vars

\* one prompt named another user's chat and was given a new chat; a second
\* prompt named that new chat and used it
C14_Witness ==
  \E p \in Prompts, q \in Prompts :
    /\ Foreign(p) /\ Has(sess[p].hist, "chat-created")
    /\ sess[q].reqChat = sess[p].chatId /\ Has(sess[q].hist, "getChatById")
    /\ Cardinality(Positions(sess[q].hist, "llm-typing-start")) = 1
    /\ ~Has(sess[q].hist, "chat-created")

\* prompt p resolved to the existing chat it named
Reused(p) == sess[p].kind = "ts" /\ Has(sess[p].hist, "getChatById")

\* C15: a prompt that names an existing chat of its socket's user resolves
\* to that chat and leaves the chat rows as they were; when an earlier prompt
\* had resolved the same chat id the same way, both use the same chat, and
\* the store holds as many chats after the two resolutions as before them
C15_ResolveTwiceSameChat ==
  [][\A p \in 1..MaxPrompts :
       (sess[p].kind = "ts" /\ sess[p].pc = "resolving" /\ sess'[p].pc # "resolving"
          /\ Owned(p)) =>
         /\ chats' = chats
         /\ sess'[p].pc = "addUser"
         /\ sess'[p].chatId = sess[p].reqChat
         /\ Positions(sess'[p].hist, "createChat") = {}
         /\ \A q \in Prompts :
              (Reused(q) /\ sess[q].reqChat = sess[p].reqChat) =>
                 /\ sess'[q].chatId = sess'[p].chatId
                 /\ Len(chats') = Len(chats)]_vars

\* two prompts named the same existing chat of their user; both were resolved
\* and the store still holds that one chat
C15_Witness ==
  \E p \in Prompts, q \in Prompts :
    /\ p # q /\ Reused(p) /\ Reused(q)
    /\ sess[p].reqChat = sess[q].reqChat
    /\ Len(chats) = 1

\* a prompt of ChatSocketHandler that named no chat and has completed
FreshCompleted(p) ==
  /\ sess[p].kind = "ts" /\ sess[p].reqChat = NoChat
  /\ Has(sess[p].hist, "llm-response-complete")

AloneInChat(p) == \A q \in Prompts : q # p => sess[q].chatId # sess[p].chatId

Sequential(p, q) ==
  /\ p < q /\ sess[p].kind = "ts" /\ sess[q].kind = "ts"
  /\ sess[p].conn = sess[q].conn /\ sess[p].chatId = sess[q].chatId
  /\ sess[q].idle
  /\ Has(sess[p].hist, "llm-response-complete")
  /\ Has(sess[q].hist, "llm-response-complete")

\* the content of the rows of a chat, creation-time ascending
RowContents(ms, chatId) ==
  LET idx == MessagesOf(ms, chatId, 1)
  IN [k \in 1..Len(idx) |-> <<ms[idx[k]].role, ms[idx[k]].prompt, ms[idx[k]].content>>]

\* C17: when two prompts were sent one after the other's completion on one
\* socket and chat and both completed, the chat holds, in creation order, the
\* first prompt's user message, an assistant message with exactly the first
\* stream's text, the second prompt's user message and an assistant message
\* with exactly the second stream's text
C17_SequentialPromptsStayApart ==
  \A p \in Prompts, q \in Prompts : Sequential(p, q) =>
    RowContents(messages, sess[p].chatId) =
      << <<"USER", p, sess[p].content>>, <<"ASSISTANT", p, Concat(sess[p].F)>>,
         <<"USER", q, sess[q].content>>, <<"ASSISTANT", q, Concat(sess[q].F)>> >>

\* two such prompts whose streams differed: one fragment, then two
C17_Witness ==
  \E p \in Prompts, q \in Prompts :
    /\ Sequential(p, q)
    /\ Len(sess[p].F) = 1 /\ Len(sess[q].F) = 2

\* the number of chunk events of prompt p, counting the one a non-empty
\* accumulator still has to give
ChunksDue(p) ==
  Cardinality(Positions(sess[p].hist, "llm-response-chunk"))
    + (IF sess[p].buffer # <<>> THEN 1 ELSE 0)

\* C18: once a fragment has arrived while the flush timer was armed, the
\* prompt has fewer chunk events than fragments, now and after every later
\* flush; no prompt ever has more chunk events than fragments
C18_BurstGivesFewerChunks ==
  \A p \in Prompts :
    /\ ChunksDue(p) <= Len(sess[p].F)
    /\ sess[p].burst => ChunksDue(p) < Len(sess[p].F)

\* two fragments arrived inside one interval and went out as the single chunk ab
C18_Witness ==
  \E p \in Prompts :
    /\ sess[p].burst /\ sess[p].pc = "done" /\ ~sess[p].timer
    /\ sess[p].F = <<<<"a">>, <<"b">>>>
    /\ Emitted(sess[p].hist) =
         <<Ev("llm-response-chunk", <<"a", "b">>, <<>>), Ev("llm-response-end", <<>>, <<>>)>>

\* the handler of prompt p called the inference stream and returned without
\* entering its catch block
EndedWell(p) ==
  /\ sess[p].pc = "done" /\ Has(sess[p].hist, "infer")
  /\ ~Has(sess[p].hist, "llm-response-error")

\* C19: a prompt whose stream has yielded no fragment has no chunk event, not
\* even an empty one; when its handler ends without a failure the completion
\* signal is the one event that followed the inference call, and
\* ChatSocketHandler has stored an assistant message with empty content
C19_EmptyStreamCompletesWithoutChunk ==
  \A p \in Prompts : sess[p].F = <<>> =>
    /\ ~Has(sess[p].hist, "llm-response-chunk")
    /\ (sess[p].kind = "js" /\ EndedWell(p)) =>
         Emitted(sess[p].hist) = <<Ev("llm-response-end", <<>>, <<>>)>>
    /\ (sess[p].kind = "ts" /\ EndedWell(p)) =>
         LET e == Emitted(sess[p].hist)
         IN /\ Len(e) >= 3
            /\ e[Len(e) - 2].ev = "llm-typing-start"
            /\ e[Len(e) - 1].ev = "llm-typing-end"
            /\ e[Len(e)].ev = "llm-response-complete"
            /\ \A i \in RowsOf(messages, p, "ASSISTANT") : messages[i].content = <<>>

\* the buffering handler ended a stream that had yielded nothing
C19_Witness ==
  \E p \in Prompts :
    /\ sess[p].F = <<>> /\ EndedWell(p)
    /\ sess[p].kind = "js" /\ Has(sess[p].hist, "llm-response-end")

\* ChatSocketHandler completed a prompt whose stream had yielded nothing
C19_WitnessRelay ==
  \E p \in Prompts :
    /\ sess[p].F = <<>> /\ EndedWell(p)
    /\ sess[p].kind = "ts" /\ Has(sess[p].hist, "llm-response-complete")

\* the payloads of the llm-response-error events sent so far
ErrorPayloads ==
  UNION {{sess[p].hist[i].text : i \in Positions(sess[p].hist, "llm-response-error")} :
           p \in Prompts}

\* C20: whatever exception was raised, every llm-response-error event carries
\* the same payload
C20_ErrorPayloadIsFixed ==
  Cardinality(ErrorPayloads) <= 1

\* the text of a fragment: its content field or the string itself, nothing
\* for a fragment that has neither
FragmentText(chunk) ==
  IF chunk.shape \in {"object", "string"} THEN chunk.content ELSE <<>>

\* C21: the text built from the fragments consumed so far is the
\* concatenation of their texts in order, an empty or undefined fragment
\* adding nothing
C21_AppendedTextIsFragmentText ==
  adapter.text =
    Concat([k \in 1..adapter.pos |-> FragmentText(adapter.stream[k])])

\* the stream a, undefined, c was consumed by the buffering handler
C21_Witness ==
  /\ adapter.runtime = "ChatOllama" /\ adapter.pos = 3
  /\ adapter.stream[1] = Chunk("object", <<"a">>)
  /\ adapter.stream[2] = Chunk("undefined", <<>>)
  /\ adapter.stream[3] = Chunk("object", <<"c">>)
  /\ adapter.text = <<"a", "c">>

\* the accumulator, timer and emitted events of a session
Private(s) == <<s.buffer, s.timer, s.hist, s.F>>

\* C22: a step of the buffering handler that changes the accumulator, the
\* timer or the events of one session leaves those of every other session as
\* they were, and after the step every session's chunks and accumulator hold
\* exactly the text of its own stream's fragments
C22_BufferPrivateToSession ==
  [][\A p \in 1..MaxPrompts : \A q \in 1..MaxPrompts :
       (p # q /\ sess[p].kind = "js" /\ sess[q].kind = "js"
          /\ Private(sess'[p]) # Private(sess[p])) =>
         /\ Private(sess'[q]) = Private(sess[q])
         /\ ChunkText(sess'[p].hist) \o sess'[p].buffer = Concat(sess'[p].F)
         /\ ChunkText(sess'[q].hist) \o sess'[q].buffer = Concat(sess'[q].F)]_vars

\* prompts on two connections: one session's timer has flushed its single
\* fragment while the other session still holds two fragments behind an armed
\* timer
C22_Witness ==
  \E p \in Prompts, q \in Prompts :
    /\ sess[p].kind = "js" /\ sess[q].kind = "js" /\ sess[p].conn # sess[q].conn
    /\ sess[p].F = <<<<"a">>>> /\ ~sess[p].timer /\ sess[p].buffer = <<>>
    /\ ChunkText(sess[p].hist) = <<"a">>
    /\ sess[q].timer /\ sess[q].buffer = <<"a", "b">>

\* the chunk events of a timeline
Chunks(h) == SelectSeq(Emitted(h), LAMBDA e : e.ev = "llm-response-chunk")

C24_NoChunkAfterTerminal ==
  \A p \in Prompts :
    \A i \in Positions(sess[p].hist, "llm-response-chunk") :
      \A t \in TerminalPositions(sess[p].hist) : i < t

\* a prompt that ChatSocketHandler accepted: bound user, non-empty content
Accepted(p) ==
  /\ sess[p].kind = "ts" /\ sess[p].pc # "unused"
  /\ ~Has(sess[p].hist, "error")

\* at most one terminal signal, nothing after it, and it is there once the
\* handler has finished; typing start at most once, and once the handler has
\* finished exactly one typing end between it and the terminal signal
OneTerminalSignal(p) ==
  LET h == sess[p].hist
      e == Emitted(h)
      ts == Positions(h, "llm-typing-start")
      te == Positions(h, "llm-typing-end")
      tm == TerminalPositions(h)
  IN /\ Cardinality(tm) <= 1
     /\ ~Has(h, "llm-response-end")
     /\ \A t \in tm : t = Len(h) /\ sess[p].pc = "done"
     /\ sess[p].pc = "done" => Cardinality(tm) = 1
     /\ Cardinality(ts) <= 1
     /\ \A i \in ts : \A j \in te : i < j
     /\ (ts # {} /\ sess[p].pc = "done") =>
          /\ Cardinality(te) = 1
          /\ \A j \in te : \A t \in tm : j < t

\* C25: every accepted prompt, its awaited calls being answered, reaches the
\* end of its handler, with exactly one terminal signal (completion or error,
\* never both) and, when typing start was emitted, exactly one typing end
\* after it and before the terminal signal
C25_AcceptedPromptEndsOnce ==
  /\ [](\A p \in Prompts : Accepted(p) => OneTerminalSignal(p))
  /\ \A p \in 1..MaxPrompts : (sess[p].pc \in Running) ~> (sess[p].pc = "done")

\* an accepted prompt ended with an error after typing start and one chunk,
\* and another one completed
C25_Witness ==
  \E p \in Prompts, q \in Prompts :
    /\ Accepted(p) /\ sess[p].pc = "done"
    /\ Has(sess[p].hist, "llm-typing-start") /\ Has(sess[p].hist, "llm-response-error")
    /\ Len(sess[p].F) = 1
    /\ Accepted(q) /\ Has(sess[q].hist, "llm-response-complete")

(* ------------------------------- C26 ----------------------------------- *)
\* the chats a prompt's timeline names: the one it created or looked up
ChatsNamed(p) ==
  {sess[p].hist[i].ref[1] :
     i \in {j \in 1..Len(sess[p].hist) : sess[p].hist[j].ev \in {"createChat", "getChatById"}}}

BoundUsers == {conn[c].user : c \in {d \in TsConns : conn[d].registered}}

\* C26: a socket's user is the one its handshake token verifies to, and every
\* chat or message that the relay or a management listener reads, creates,
\* writes or deletes belongs to that user, whichever userId the
\* chat-with-llm payload carries
C26_StorageUsesBoundIdentity ==
  /\ \A c \in TsConns : conn[c].registered =>
       /\ conn[c].user # NoUser
       /\ conn[c].user = verifyToken(conn[c].cred)
       /\ \A i \in conn[c].listed : chats[i].userId = conn[c].user
  /\ \A p \in Prompts : sess[p].kind = "ts" =>
       /\ \A i \in ChatsNamed(p) : chats[i].userId = UserOf(p)
       /\ \A i \in 1..Len(messages) : messages[i].prompt = p =>
            /\ messages[i].userId = UserOf(p)
            /\ chats[messages[i].chatId].userId = UserOf(p)
  /\ \A i \in 1..Len(chats) :
       (chats[i].title \in {"S", "New Chat"} \/ chats[i].deleted) => chats[i].userId \in BoundUsers

\* a prompt whose payload names the other user has completed, the other user
\* has a chat, and the socket has listed and deleted chats
C26_Witness ==
  \E p \in Prompts :
    /\ sess[p].kind = "ts" /\ Completed(p)
    /\ sess[p].payloadUser # UserOf(p)
    /\ \E i \in 1..Len(messages) : messages[i].prompt = p /\ messages[i].role = "ASSISTANT"
    /\ \E i \in 1..Len(chats) : chats[i].userId = sess[p].payloadUser /\ ~chats[i].deleted
    /\ \E i \in 1..Len(chats) : chats[i].deleted
    /\ conn[sess[p].conn].listed # {}

(* ------------------------------- C27 ----------------------------------- *)
\* the rows that the llm-response-complete events of a timeline carry
CompletedRows(h) == {h[i].ref[1] : i \in Positions(h, "llm-response-complete")}

\* C27: the assistant message persisted for a prompt that completed holds the
\* payloads of the prompt's llm-response-chunk events, joined in their order
C27_PersistedIsChunksJoined ==
  \A p \in Prompts : sess[p].kind = "ts" =>
    \A m \in CompletedRows(sess[p].hist) :
      /\ m \in 1..Len(messages)
      /\ messages[m].prompt = p /\ messages[m].role = "ASSISTANT"
      /\ messages[m].content = ChunkText(sess[p].hist)

\* a prompt completed after two chunks, while another prompt of the socket
\* has emitted a chunk of its own
C27_Witness ==
  \E p \in Prompts :
    /\ sess[p].kind = "ts" /\ CompletedRows(sess[p].hist) # {}
    /\ Len(Chunks(sess[p].hist)) = 2
    /\ \E q \in Prompts \ {p} : Chunks(sess[q].hist) # <<>>

(* ------------------------------- C28 ----------------------------------- *)
\* the place of a part in the order the text is said to have
Rank(part) ==
  CASE part.part = "system" -> 1
    [] part.part = "Additional context" -> 2
    [] part.part = "Chat context" -> 3
    [] part.part = "Previous conversation:" -> 4
    [] part.row # 0 -> 5
    [] part.part = "User" -> 6
    [] OTHER -> 7

\* the lines of the text that hold the turn of prompt p: the new user turn,
\* and the lines of the conversation read from the message p stored
TurnLines(p) ==
  {i \in 1..Len(sess[p].fullPrompt) :
     LET part == sess[p].fullPrompt[i]
     IN /\ part.part = "User" /\ part.text = sess[p].content
        /\ part.row # 0 => messages[part.row].prompt = p}

\* C28: the text passed to the adapter holds the preamble, the additional
\* context, the chat's context, the recent messages and the new user turn in
\* this order, and the new user turn stands in it once
C28_PromptHoldsTurnOnce ==
  \A p \in Prompts : sess[p].fullPrompt # <<>> =>
    LET t == sess[p].fullPrompt
    IN /\ \A i, j \in 1..Len(t) : i < j =>
            (Rank(t[i]) < Rank(t[j]) \/ (Rank(t[i]) = 5 /\ Rank(t[j]) = 5))
       /\ t[1].part = "system"
       /\ (sess[p].context # NoContext) = (\E i \in 1..Len(t) : t[i].part = "Additional context")
       /\ (chats[sess[p].chatId].context # NoContext) = (\E i \in 1..Len(t) : t[i].part = "Chat context")
       /\ Cardinality(TurnLines(p)) = 1

(* ------------- the browser: ChatGPTClone socket listeners -------------- *)
\* one message of the active chat as the browser shows it; `prompt` and
\* `error` are history: the prompt during which the message was added and
\* whether the error listener added it
Shown(role, content, p, isError) ==
  [role |-> role, content |-> content, prompt |-> p, error |-> isError]

\* the events of the current prompt that the server has emitted
Arrived == IF client.sent = 0 THEN <<>> ELSE Emitted(sess[client.sent].hist)

\* the browser has taken every event of its latest prompt, which is over
Quiet ==
  IF client.sent = 0 THEN TRUE
  ELSE /\ client.sent = nPrompts /\ sess[client.sent].pc = "done"
       /\ client.pos = Len(Arrived)

\* sendMessage: the trimmed input is not empty; the message is added to the
\* active chat and chat-with-llm is emitted with the active chat's id. The
\* user sends the next prompt after the reply to the previous one is over
sendMessage(c, content) ==
  /\ conn[c].state = "open" /\ conn[c].kind = "ts" /\ conn[c].registered
  /\ content # <<>>
  /\ client.sent < MaxPrompts /\ Quiet
  /\ client' = [client EXCEPT !.msgs = Append(@, Shown("user", content, client.sent + 1, FALSE)),
                              !.sent = @ + 1, !.pos = 0,
                              !.out = <<[content |-> content, chatId |-> client.chatId]>>]
  /\ UNCHANGED <<server, conn, sess, nPrompts, chats, messages, clock, activeConnections, restLog, dropped, ctxRead, adapter>>

\* the server takes the chat-with-llm event the browser emitted
receiveChatWithLLM(c) ==
  /\ client.sent = nPrompts + 1 /\ client.out # <<>>
  /\ handleChatWithLLM(c, client.out[1].content, client.out[1].chatId, NoContext)

\* the listeners of lines 291-340, run on one event e during prompt p; events
\* without a listener leave the browser as it is
onEvent(cl, e, p) ==
  CASE e.ev = "llm-response-chunk" ->
         LET acc == cl.acc \o e.text
             n == Len(cl.msgs)
         IN IF n > 0 /\ cl.msgs[n].role = "assistant"
            THEN [cl EXCEPT !.acc = acc, !.msgs[n].content = acc]
            ELSE [cl EXCEPT !.acc = acc, !.msgs = Append(@, Shown("assistant", acc, p, FALSE))]
    [] e.ev = "llm-response-end" -> [cl EXCEPT !.acc = <<>>]
    [] e.ev = "llm-response-error" ->
         [cl EXCEPT !.msgs = Append(@, Shown("assistant", <<"Error: ">> \o e.text, p, TRUE))]
    [] e.ev = "chat-created" -> [cl EXCEPT !.chatId = e.ref[1]]
    [] OTHER -> cl

\* the browser takes the next event of the socket
deliver ==
  /\ client.sent > 0 /\ client.sent = nPrompts
  /\ client.pos < Len(Arrived)
  /\ client' = [onEvent(client, Arrived[client.pos + 1], client.sent) EXCEPT !.pos = @ + 1]
  /\ UNCHANGED <<server, conn, sess, nPrompts, chats, messages, clock, activeConnections, restLog, dropped, ctxRead, adapter>>

NextClient ==
  \/ \E c \in TsConns, t \in TsTokens : handleConnection(c, t)
  \/ \E c \in TsConns, t \in Contents : sendMessage(c, t)
  \/ \E c \in TsConns : receiveChatWithLLM(c)
  \/ \E p \in 1..MaxPrompts, ok \in BOOLEAN : resolveChat(p, ok)
  \/ \E p \in 1..MaxPrompts, o \in StoreOutcomes : addUserMessage(p, o)
  \/ \E p \in 1..MaxPrompts, ok \in BOOLEAN : startStream(p, ok)
  \/ \E p \in 1..MaxPrompts, f \in {<<Letters[i]>> : i \in 1..MaxFrags} : relayFragment(p, f)
  \/ \E p \in 1..MaxPrompts : streamEnd(p)
  \/ \E p \in 1..MaxPrompts : streamError(p)
  \/ \E p \in 1..MaxPrompts, o \in StoreOutcomes : persistResponse(p, o)
  \/ deliver

SpecClient == InitExpress /\ [][NextClient]_vars

(* ------------------------------- C29 ----------------------------------- *)
\* the browser has taken every event of prompt p, which is over
Over(p) == p < client.sent \/ (p = client.sent /\ Quiet)

\* C29: once a prompt is over, the accumulator is empty again and the
\* assistant text the browser shows for the prompt is the prompt's chunk
\* payloads joined, with nothing of an earlier reply before them
C29_ShownIsOwnChunks ==
  \A p \in 1..client.sent : (Over(p) /\ (Completed(p) \/ Failed(p))) =>
    /\ (p = client.sent => client.acc = <<>>)
    /\ \A i \in 1..Len(client.msgs) :
         (client.msgs[i].prompt = p /\ client.msgs[i].role = "assistant" /\ ~client.msgs[i].error)
           => client.msgs[i].content = ChunkText(sess[p].hist)

(* ------------------------------- C30 ----------------------------------- *)
\* C30: a prompt without content on a socket with a bound user is answered
\* with one error event and nothing else: its timeline holds no storage call,
\* no inference call and no other event, it names no chat of its own, and no
\* message row was written for it
C30_EmptyContentOnlyRejected ==
  \A p \in Prompts :
    (sess[p].kind = "ts" /\ sess[p].content = <<>> /\ UserOf(p) # NoUser) =>
      /\ sess[p].pc = "done"
      /\ sess[p].hist = <<Ev("error", <<"Content is required">>, <<>>)>>
      /\ sess[p].chatId = sess[p].reqChat
      /\ sess[p].F = <<>> /\ sess[p].fullPrompt = <<>>
      /\ \A i \in 1..Len(messages) : messages[i].prompt # p

\* a prompt without content was rejected on a socket on which another prompt
\* created a chat and completed
C30_Witness ==
  \E p \in Prompts :
    /\ sess[p].kind = "ts" /\ sess[p].content = <<>> /\ UserOf(p) # NoUser
    /\ sess[p].hist # <<>>
    /\ \E q \in Prompts \ {p} :
         /\ sess[q].conn = sess[p].conn /\ Completed(q)
         /\ Has(sess[q].hist, "chat-created")
====
